---- MODULE Spec2Model ----
(***************************************************************************)
(* Model of streamlit_app.py, the "LLM Release Explorer" dashboard.        *)
(*                                                                         *)
(* The script is re-executed from top to bottom on every widget event      *)
(* (Streamlit's execution model); load_data() is memoised by               *)
(* @st.cache_data.  One action of the model is one complete script run.    *)
(*                                                                         *)
(* Representation                                                          *)
(*  - a string that the code takes apart (an organization name, which is   *)
(*    formatted into a selectbox label and split again) is a sequence of   *)
(*    tokens; other strings are TLA+ strings;                              *)
(*  - a nullable cell (a JSON field, a DataFrame cell) is a sequence of    *)
(*    length 0 (null or absent: None, NaN, NaT) or 1 (the value);          *)
(*  - a "Release Date" text of the shape YYYY-MM-DD is the triple          *)
(*    <<y, m, d>> of its digit groups, which need not be a calendar date;  *)
(*  - a Timestamp is the day number since 1970-01-01 (all times of day    *)
(*    are midnight, the format has no time part);                          *)
(*  - a float that is the quotient of two integers is the pair             *)
(*    [num, den]; floor division and modulo are computed exactly           *)
(*    (binary rounding of the quotient is not modelled).                   *)
(***************************************************************************)
EXTENDS Integers, Sequences, FiniteSets, TLC

VARIABLES
    pc,                       \* "start", "ready", "nodata", "crashed"
    models_json,              \* the content of models.json
    df,                       \* the cached result of load_data()
    parse_error,              \* what load_data() reports on JSONDecodeError
    data_type, graph_type,    \* sidebar radios
    selected_companies,       \* sidebar multiselect
    date_range,               \* sidebar date_input: <<start_date, end_date>>
    raw_data,                 \* sidebar checkbox
    selected_points,          \* value of the plotly_events component
    selected_company_option,  \* value of the 'Select a company:' selectbox
    page                      \* everything the last script run computed and displayed

vars == <<pc, models_json, df, parse_error, data_type, graph_type,
          selected_companies, date_range, raw_data, selected_points,
          selected_company_option, page>>

widgets == <<data_type, graph_type, selected_companies, date_range, raw_data,
             selected_points, selected_company_option>>

-----------------------------------------------------------------------------
(* Bounds of the model *)

MaxRows == 3        \* rows of models.json in the load specification
MaxUIRows == 2      \* rows of models.json in the interaction specification
MaxTextLen == 3     \* characters of a malformed models.json
MaxCadenceRows == 5 \* rows of models.json in the release-cycle specification

-----------------------------------------------------------------------------
(* Generic helpers *)

Range(s) == {s[i] : i \in 1..Len(s)}

SeqsUpTo(S, n) == UNION {[1..k -> S] : k \in 0..n}

Min(S) == CHOOSE x \in S : \A y \in S : x <= y

Max(S) == CHOOSE x \in S : \A y \in S : y <= x

-----------------------------------------------------------------------------
(* Calendar: what pd.to_datetime(format='%Y-%m-%d') and .dt.to_period('M') *)
(* do with a date text.                                                    *)

IsLeap(y) == (y % 4 = 0 /\ y % 100 # 0) \/ y % 400 = 0

DaysInMonth(y, m) ==
    IF m = 2 THEN (IF IsLeap(y) THEN 29 ELSE 28)
    ELSE IF m \in {4, 6, 9, 11} THEN 30 ELSE 31

\* strptime accepts the digit groups only when they name a calendar day
IsCalendarDate(t) ==
    /\ t[1] \in 1..9999
    /\ t[2] \in 1..12
    /\ t[3] >= 1 /\ t[3] <= DaysInMonth(t[1], t[2])

\* days since 1970-01-01 of a calendar day (proleptic Gregorian)
ToOrdinal(t) ==
    LET y   == IF t[2] <= 2 THEN t[1] - 1 ELSE t[1]
        era == y \div 400
        yoe == y - era * 400
        mp  == IF t[2] > 2 THEN t[2] - 3 ELSE t[2] + 9
        doy == (153 * mp + 2) \div 5 + t[3] - 1
        doe == yoe * 365 + yoe \div 4 - yoe \div 100 + doy
    IN  era * 146097 + doe - 719468

\* the calendar day of a day number
FromOrdinal(n) ==
    LET z   == n + 719468
        era == z \div 146097
        doe == z - era * 146097
        yoe == (doe - doe \div 1460 + doe \div 36524 - doe \div 146096) \div 365
        doy == doe - (365 * yoe + yoe \div 4 - yoe \div 100)
        mp  == (5 * doy + 2) \div 153
        d   == doy - (153 * mp + 2) \div 5 + 1
        m   == IF mp < 10 THEN mp + 3 ELSE mp - 9
        y   == yoe + era * 400 + (IF m <= 2 THEN 1 ELSE 0)
    IN  <<y, m, d>>

\* Series.isnull() of one cell
isnull(cell) == cell = <<>>

\* pd.to_datetime(x, format='%Y-%m-%d', errors='coerce') of one cell:
\* a Timestamp, or NaT for a null or a text that is no calendar day
to_datetime(cell) ==
    IF isnull(cell) THEN <<>>
    ELSE IF IsCalendarDate(cell[1]) THEN <<ToOrdinal(cell[1])>> ELSE <<>>

\* .dt.to_period('M').astype(str) of one Timestamp: 'YYYY-MM' as <<y, m>>
to_period_M(ts) == <<FromOrdinal(ts[1])[1], FromOrdinal(ts[1])[2]>>

\* an order of the months that looks at the month before the year
MonthLess_month_first(a, b) == a[2] < b[2] \/ (a[2] = b[2] /\ a[1] < b[1])

\* order of 'YYYY-MM' strings (lexicographic; years have four digits)
MonthLess(a, b) == a[1] < b[1] \/ (a[1] = b[1] /\ a[2] < b[2])

-----------------------------------------------------------------------------
(* load_data, lines 9-26 *)

Unknown == <<"Unknown">>

\* line 15: df.dropna(subset=['Release Date'])
dropna(t) == SelectSeq(t, LAMBDA r : ~isnull(r.ReleaseDate))

\* line 16: df['Organization'].fillna('Unknown') of one cell; fillna
\* replaces NaN/None only, an empty string is a value
fillna(cell) == IF isnull(cell) THEN <<Unknown>> ELSE cell

\* lines 13-18: the DataFrame built from the parsed JSON array
load_data(data) ==
    LET parsed == [i \in 1..Len(data) |->
                     [Model        |-> data[i].Model,
                      Organization |-> data[i].Organization,
                      ReleaseDate  |-> to_datetime(data[i].ReleaseDate)]]
        kept   == dropna(parsed)
    IN  [i \in 1..Len(kept) |->
           [Model        |-> kept[i].Model,
            Organization |-> fillna(kept[i].Organization),
            ReleaseDate  |-> kept[i].ReleaseDate,
            YearMonth    |-> to_period_M(kept[i].ReleaseDate)]]

\* json.JSONDecodeError.lineno: doc.count('\n', 0, pos) + 1, for the
\* 0-based offset pos of the fault
lineno(doc, pos) == Cardinality({i \in 1..pos : doc[i] = "\n"}) + 1

\* json.JSONDecodeError.colno: pos - doc.rindex('\n', 0, pos), or pos + 1
\* when no newline precedes pos
colno(doc, pos) ==
    LET nl == {i \in 1..pos : doc[i] = "\n"}
    IN  IF nl = {} THEN pos + 1 ELSE pos - (Max(nl) - 1)

\* f.readlines(): the lines of the text, each with its newline
RECURSIVE readlines(_)
readlines(doc) ==
    IF doc = <<>> THEN <<>>
    ELSE LET nl == {i \in 1..Len(doc) : doc[i] = "\n"}
             e  == IF nl = {} THEN Len(doc) ELSE Min(nl)
         IN  <<SubSeq(doc, 1, e)>> \o readlines(SubSeq(doc, e + 1, Len(doc)))

\* "".join(xs)
RECURSIVE join(_)
join(xs) == IF xs = <<>> THEN <<>> ELSE Head(xs) \o join(Tail(xs))

\* the excerpt with one line less before the fault
excerpt_short(lines, ln) ==
    LET lo == (IF ln - 2 > 0 THEN ln - 2 ELSE 0) + 1
        hi == IF ln + 2 < Len(lines) THEN ln + 2 ELSE Len(lines)
    IN  join(SubSeq(lines, lo, hi))

\* line 25: "".join(lines[max(0, e.lineno-3):e.lineno+2])
excerpt(lines, ln) ==
    LET lo == (IF ln - 3 > 0 THEN ln - 3 ELSE 0) + 1
        hi == IF ln + 2 < Len(lines) THEN ln + 2 ELSE Len(lines)
    IN  join(SubSeq(lines, lo, hi))

\* lines 19-25: what the except branch reports for a fault at offset pos;
\* str(e) ends with "line L column C (char pos)"
report_error(doc, pos) ==
    [char    |-> pos,
     lineno  |-> lineno(doc, pos),
     colno   |-> colno(doc, pos),
     excerpt |-> excerpt(readlines(doc), lineno(doc, pos))]

-----------------------------------------------------------------------------
(* Release cycles, lines 28-38 and 91-116 *)

\* df[col].unique() / the index of value_counts(), as a set
Organizations(t) == {t[i].Organization : i \in 1..Len(t)}

\* df[df['Organization'] == company] and df[df['Organization'].isin(S)]
isin(t, S) == SelectSeq(t, LAMBDA r : r.Organization \in S)

\* df['Organization'].value_counts()
value_counts(t) == [o \in Organizations(t) |-> Len(isin(t, {o}))]

\* df['Release Date'].min() and .max() of a non-empty table
min_date(t) == <<Min({t[i].ReleaseDate[1] : i \in 1..Len(t)})>>

max_date(t) == <<Max({t[i].ReleaseDate[1] : i \in 1..Len(t)})>>

\* a float quotient a / b
Quot(a, b) == [num |-> a, den |-> b]

\* int(q // k) and int(q % k) of a non-negative float quotient q
FloorDiv(q, k) == q.num \div (q.den * k)

FloorMod(q, k) == (q.num \div q.den) % k

None3 == << <<>>, <<>>, <<>> >>

\* the cycle as the mean gap between an organization's own releases
calculate_release_cycle_gaps(t, company, last_release_date) ==
    LET company_df == isin(t, {company})
        num_models == Len(company_df)
    IN  IF num_models > 1
        THEN LET total_days    == max_date(company_df)[1] - min_date(company_df)[1]
                 average_cycle == Quot(total_days, num_models - 1)
             IN  << <<average_cycle>>,
                    <<FloorDiv(average_cycle, 30)>>,
                    <<FloorMod(average_cycle, 30)>> >>
        ELSE None3

\* lines 28-38; the result is (average_cycle, months, days) or
\* (None, None, None), each component a nullable cell
calculate_release_cycle(t, company, last_release_date) ==
    LET company_df == isin(t, {company})
        num_models == Len(company_df)
    IN  IF num_models > 1
        THEN LET first_release_date == min_date(company_df)
                 total_days    == last_release_date[1] - first_release_date[1]
                 average_cycle == Quot(total_days, num_models)
             IN  << <<average_cycle>>,
                    <<FloorDiv(average_cycle, 30)>>,
                    <<FloorMod(average_cycle, 30)>> >>
        ELSE None3

\* lines 98-100: the rows of the companies with more than one model
df_filtered(t) ==
    LET model_counts == value_counts(t)
        companies_with_multiple_models ==
            {o \in DOMAIN model_counts : model_counts[o] > 1}
    IN  isin(t, companies_with_multiple_models)

\* the cycles computed for every company, single releases included
company_cycles_all(t, last_release_date) ==
    [company \in Organizations(t) |->
        LET first == min_date(isin(t, {company}))
            cycle == Quot(last_release_date[1] - first[1], Len(isin(t, {company})))
        IN  << <<cycle>>, <<FloorDiv(cycle, 30)>>, <<FloorMod(cycle, 30)>> >>]

\* line 103
company_cycles(t, last_release_date) ==
    [company \in Organizations(df_filtered(t)) |->
        calculate_release_cycle(df_filtered(t), company, last_release_date)]

\* line 106
company_avg_cycles(cycles) ==
    [company \in {c \in DOMAIN cycles : ~isnull(cycles[c][1])} |->
        cycles[company][1][1]]

\* the sum of the float quotients f[c], c in S, as one quotient
RECURSIVE SumQuot(_, _)
SumQuot(f, S) ==
    IF S = {} THEN Quot(0, 1)
    ELSE LET c    == CHOOSE x \in S : TRUE
             rest == SumQuot(f, S \ {c})
         IN  Quot(f[c].num * rest.den + rest.num * f[c].den, f[c].den * rest.den)

\* the overall cycle as the mean over releases, not over organizations
overall_average_cycle_pooled(avg) ==
    IF DOMAIN avg # {}
    THEN LET total == SumQuot([c \in DOMAIN avg |-> Quot(avg[c].num, 1)], DOMAIN avg)
             count == SumQuot([c \in DOMAIN avg |-> Quot(avg[c].den, 1)], DOMAIN avg)
             overall_average_cycle_days == Quot(total.num, count.num)
         IN  [days_mean |-> <<overall_average_cycle_days>>,
              months    |-> FloorDiv(overall_average_cycle_days, 30),
              days      |-> FloorMod(overall_average_cycle_days, 30)]
    ELSE [days_mean |-> <<>>, months |-> 0, days |-> 0]

\* lines 111-116: (overall_months, overall_days)
overall_average_cycle(avg) ==
    IF DOMAIN avg # {}
    THEN LET total == SumQuot(avg, DOMAIN avg)
             overall_average_cycle_days ==
                 Quot(total.num, total.den * Cardinality(DOMAIN avg))
         IN  [days_mean |-> <<overall_average_cycle_days>>,
              months    |-> FloorDiv(overall_average_cycle_days, 30),
              days      |-> FloorMod(overall_average_cycle_days, 30)]
    ELSE [days_mean |-> <<>>, months |-> 0, days |-> 0]

-----------------------------------------------------------------------------
(* Filters and monthly aggregates, lines 155-174 *)

\* the filter with the last day of the range left out
apply_filters_open_end(t, companies, start_date, end_date) ==
    IF companies # {}
    THEN SelectSeq(t, LAMBDA r : /\ r.Organization \in companies
                                 /\ r.ReleaseDate[1] >= start_date[1]
                                 /\ r.ReleaseDate[1] < end_date[1])
    ELSE SelectSeq(t, LAMBDA r : /\ r.ReleaseDate[1] >= start_date[1]
                                 /\ r.ReleaseDate[1] < end_date[1])

\* lines 156-159
apply_filters(t, companies, start_date, end_date) ==
    IF companies # {}
    THEN SelectSeq(t, LAMBDA r : /\ r.Organization \in companies
                                 /\ r.ReleaseDate[1] >= start_date[1]
                                 /\ r.ReleaseDate[1] <= end_date[1])
    ELSE SelectSeq(t, LAMBDA r : /\ r.ReleaseDate[1] >= start_date[1]
                                 /\ r.ReleaseDate[1] <= end_date[1])

Months(t) == {t[i].YearMonth : i \in 1..Len(t)}

\* the group keys in the order groupby(sort=True) yields them
RECURSIVE SortedMonths(_)
SortedMonths(S) ==
    IF S = {} THEN <<>>
    ELSE LET m == CHOOSE x \in S : \A y \in S \ {x} : MonthLess(x, y)
         IN  <<m>> \o SortedMonths(S \ {m})

\* the group sizes counted per month only
groupby_size_by_month(t) ==
    [k \in {<<t[i].YearMonth, t[i].Organization>> : i \in 1..Len(t)} |->
        Cardinality({i \in 1..Len(t) : t[i].YearMonth = k[1]})]

\* groupby(['Year-Month', 'Organization']).size(): one entry per observed
\* group; a group key is never null here
groupby_size(t) ==
    [k \in {<<t[i].YearMonth, t[i].Organization>> : i \in 1..Len(t)} |->
        Cardinality({i \in 1..Len(t) :
                        t[i].YearMonth = k[1] /\ t[i].Organization = k[2]})]

\* .unstack(fill_value=0): months down the index, organizations across
unstack(sizes, fill_value) ==
    LET months == SortedMonths({k[1] : k \in DOMAIN sizes})
        orgs   == {k[2] : k \in DOMAIN sizes}
    IN  [index   |-> months,
         columns |-> orgs,
         values  |-> [i \in 1..Len(months) |->
                        [o \in orgs |->
                            IF <<months[i], o>> \in DOMAIN sizes
                            THEN sizes[<<months[i], o>>] ELSE fill_value]]]

\* line 171
monthly_counts(t) == unstack(groupby_size(t), 0)

\* line 174: DataFrame.cumsum(), the running sum down the index
cumsum(frame) ==
    LET c[i \in 1..Len(frame.index)] ==
            [o \in frame.columns |->
                IF i = 1 THEN frame.values[1][o]
                ELSE c[i - 1][o] + frame.values[i][o]]
    IN  [index |-> frame.index, columns |-> frame.columns, values |-> c]

\* line 198: plot_data.sum(axis=1)
RECURSIVE SumOver(_, _)
SumOver(f, S) ==
    IF S = {} THEN 0
    ELSE LET c == CHOOSE x \in S : TRUE IN f[c] + SumOver(f, S \ {c})

sum_axis1(frame) ==
    [i \in 1..Len(frame.index) |-> SumOver(frame.values[i], frame.columns)]

-----------------------------------------------------------------------------
(* Per-company section, lines 268-290 *)

\* str(n) of a non-negative integer, one token per digit
RECURSIVE str(_)
str(n) ==
    LET digit == <<"0", "1", "2", "3", "4", "5", "6", "7", "8", "9">>[(n % 10) + 1]
    IN  IF n < 10 THEN <<digit>> ELSE str(n \div 10) \o <<digit>>

\* line 271: f"{company} ({count} models)"
format_option(company, count) ==
    company[1] \o <<" ", "(">> \o str(count) \o <<" models)">>

\* line 274: option.split(' (')[0]
split_paren(label) ==
    LET hits == {i \in 1..(Len(label) - 1) : label[i] = " " /\ label[i + 1] = "("}
    IN  IF hits = {} THEN label ELSE SubSeq(label, 1, Min(hits) - 1)

\* lines 269-271, as a set: the labels offered by the selectbox
company_options(filtered) ==
    LET company_model_counts == value_counts(filtered)
    IN  {format_option(o, company_model_counts[o]) : o \in DOMAIN company_model_counts}

\* the labels that can stand first (the selectbox default): value_counts
\* sorts by descending count and leaves the order of ties unspecified
first_options(filtered) ==
    LET company_model_counts == value_counts(filtered)
        top == {o \in DOMAIN company_model_counts :
                   \A q \in DOMAIN company_model_counts :
                       company_model_counts[q] <= company_model_counts[o]}
    IN  {format_option(o, company_model_counts[o]) : o \in top}

\* strftime('%Y-%m') of a Timestamp column, for display
display(t) ==
    [i \in 1..Len(t) |-> [Model        |-> t[i].Model,
                          Organization |-> t[i].Organization,
                          ReleaseDate  |-> to_period_M(t[i].ReleaseDate)]]

\* line 229: pd.to_datetime(selected_month).strftime('%Y-%m') of 'YYYY-MM'
selected_month_str(x) == to_period_M(<<ToOrdinal(<<x[1], x[2], 1>>)>>)

-----------------------------------------------------------------------------
(* One script run, lines 84-313, for a non-empty df *)

\* lines 181-202: what the figure plots
figure(plot_data, dt, gt) ==
    IF gt = "Stacked Area"
    THEN [title |-> <<dt, gt>>, x |-> plot_data.index, y |-> plot_data.values]
    ELSE [title |-> <<dt, gt>>, x |-> plot_data.index, y |-> sum_axis1(plot_data)]

SameFig(a, b) == a.title = b.title /\ a.x = b.x /\ a.y = b.y

\* lines 306-313
quality_warnings(t) ==
    LET missing_orgs  == Cardinality({i \in 1..Len(t) : isnull(t[i].Organization)})
        missing_dates == Cardinality({i \in 1..Len(t) : isnull(t[i].ReleaseDate)})
    IN  {[kind |-> "missing organization", count |-> missing_orgs] : x \in
             {y \in {1} : missing_orgs > 0}}
        \cup
        {[kind |-> "invalid release date", count |-> missing_dates] : x \in
             {y \in {1} : missing_dates > 0}}

NoPage ==
    [company_cycles    |-> <<>>,  overall         |-> <<>>,
     filtered_df       |-> <<>>,  raw_table       |-> <<>>,
     monthly_counts    |-> <<>>,  cumulative_counts |-> <<>>,
     fig               |-> <<>>,  month_df        |-> <<>>,
     company_options   |-> {},    selected_company |-> <<>>,
     banner            |-> <<>>,  company_df      |-> <<>>,
     exception         |-> FALSE, warnings        |-> {}]

Script(t, dt, gt, companies, rng, raw, points, option) ==
    LET last_release_date == max_date(t)
        cycles      == company_cycles(t, last_release_date)
        overall     == overall_average_cycle(company_avg_cycles(cycles))
        filtered    == apply_filters(t, companies, rng[1], rng[2])
        monthly     == monthly_counts(filtered)
        cumulative  == cumsum(monthly)
        plot_data   == IF dt = "Number of Available Models" THEN cumulative ELSE monthly
        month       == selected_month_str(points[1])
        \* line 274 raises AttributeError when the selectbox has no option
        failed      == isnull(option)
        company     == split_paren(option[1])
        \* line 279: company_cycles.get(selected_company, (None, None, None))
        cycle       == IF <<company>> \in DOMAIN cycles THEN cycles[<<company>>] ELSE None3
    IN  IF raw
        THEN [NoPage EXCEPT
                !.company_cycles = <<cycles>>,
                !.overall        = <<overall>>,
                !.filtered_df    = <<filtered>>,
                !.raw_table      = <<display(filtered)>>,
                !.warnings       = quality_warnings(t)]
        ELSE [company_cycles    |-> <<cycles>>,
              overall           |-> <<overall>>,
              filtered_df       |-> <<filtered>>,
              raw_table         |-> <<>>,
              monthly_counts    |-> <<monthly>>,
              cumulative_counts |-> <<cumulative>>,
              fig               |-> <<figure(plot_data, dt, gt)>>,
              month_df          |->
                  IF isnull(points) \/ month \notin Months(filtered) THEN <<>>
                  ELSE <<display(SelectSeq(filtered, LAMBDA r : r.YearMonth = month))>>,
              company_options   |-> company_options(filtered),
              selected_company  |-> IF failed THEN <<>> ELSE <<company>>,
              banner            |->
                  IF failed \/ isnull(cycle[2]) THEN <<>>
                  ELSE <<[company |-> company, months |-> cycle[2][1],
                          days |-> cycle[3][1]]>>,
              company_df        |->
                  IF failed THEN <<>>
                  ELSE <<display(isin(filtered, {<<company>>}))>>,
              exception         |-> failed,
              warnings          |-> IF failed THEN {} ELSE quality_warnings(t)]

-----------------------------------------------------------------------------
(* The contents of models.json the model starts from *)

OrgA == <<"a">>

OrgB == <<"b">>

\* a name that contains the separator of the selectbox label
OrgAParen == <<"a", " ", "(", "x", ")">>

\* Organization cells: null, the empty string, names
OrgCells == {<<>>, << <<>> >>, <<OrgA>>, <<OrgB>>}

\* Release Date cells: three calendar days in three months, a text that is
\* no calendar day, null
DateCells == {<< <<2024, 1, 15>> >>, << <<2024, 2, 1>> >>, << <<2024, 3, 15>> >>,
              << <<2023, 2, 29>> >>, <<>>}

UIOrgCells == {<<OrgA>>, <<OrgAParen>>}

UIDateCells == {<< <<2023, 12, 31>> >>, << <<2024, 1, 15>> >>, << <<2024, 3, 15>> >>}

\* the JSON arrays of up to n objects; Model is the position in the array
Tables(orgs, dates, n) ==
    {[i \in 1..k |-> [Model |-> i, Organization |-> o[i], ReleaseDate |-> d[i]]] :
        <<k, o, d>> \in UNION {{k} \X [1..k -> orgs] \X [1..k -> dates] : k \in 0..n}}

CadenceOrgCells == {<<OrgA>>, <<OrgB>>}

CadenceDateCells == {<< <<2024, 1, 15>> >>, << <<2024, 3, 15>> >>, << <<2024, 4, 14>> >>}

ValidFile(data) == [valid |-> TRUE, data |-> data, text |-> <<>>]

\* a text json.load rejects; "x" stands for any character but a newline
MalformedFile(text) == [valid |-> FALSE, data |-> <<>>, text |-> text]

Texts(n) == SeqsUpTo({"x", "\n"}, n)

\* the offsets json.load can report for a text: any offset up to the end of
\* the text, except that a newline is itself the fault only inside a string
\* literal, hence after some other character
FaultPositions(doc) ==
    {p \in 0..Len(doc) :
        (p < Len(doc) /\ doc[p + 1] = "\n") => \E i \in 1..p : doc[i] # "\n"}

-----------------------------------------------------------------------------
(* Actions *)

InitCommon ==
    /\ pc = "start"
    /\ df = <<>>
    /\ parse_error = <<>>
    /\ data_type = "Number of Available Models"
    /\ graph_type = "Stacked Area"
    /\ selected_companies = {}
    /\ date_range = << <<>>, <<>> >>
    /\ raw_data = FALSE
    /\ selected_points = <<>>
    /\ selected_company_option = <<>>
    /\ page = NoPage

\* the interaction specification starts from small files
Init ==
    /\ models_json \in
         {ValidFile(d) : d \in Tables(UIOrgCells, UIDateCells, MaxUIRows)}
         \cup {MalformedFile(x) : x \in Texts(1)}
    /\ InitCommon

\* the load specification starts from larger files
InitLoad ==
    /\ models_json \in
         {ValidFile(d) : d \in Tables(OrgCells, DateCells, MaxRows)}
         \cup {MalformedFile(x) : x \in Texts(MaxTextLen)}
    /\ InitCommon

\* the release-cycle specification starts from non-empty files with up to
\* MaxCadenceRows dated rows of two organizations
InitCadence ==
    /\ models_json \in
         {ValidFile(d) : d \in Tables(CadenceOrgCells, CadenceDateCells,
                                      MaxCadenceRows) \ {<<>>}}
    /\ InitCommon

\* the selectbox value of a run: none when the selectbox is not reached or
\* has no option, the kept value when its options are those of the last
\* run, else the first option
OptionChoices(filtered, raw) ==
    IF raw \/ company_options(filtered) = {} THEN {<<>>}
    ELSE IF /\ company_options(filtered) = page.company_options
            /\ ~isnull(selected_company_option)
         THEN {selected_company_option}
         ELSE {<<o>> : o \in first_options(filtered)}

\* the value of the chart component of a run: kept only while the figure
\* it was created with is the same
PointsKept(filtered, dt, gt, raw) ==
    LET monthly   == monthly_counts(filtered)
        plot_data == IF dt = "Number of Available Models" THEN cumsum(monthly)
                     ELSE monthly
    IN  IF raw \/ isnull(page.fig) THEN <<>>
        ELSE IF SameFig(page.fig[1], figure(plot_data, dt, gt))
             THEN selected_points ELSE <<>>

\* a full run of the script with the given widget values
Run(t, dt, gt, companies, rng, raw, points, option) ==
    /\ data_type' = dt
    /\ graph_type' = gt
    /\ selected_companies' = companies
    /\ date_range' = rng
    /\ raw_data' = raw
    /\ selected_points' = points
    /\ selected_company_option' = option
    /\ page' = Script(t, dt, gt, companies, rng, raw, points, option)

\* a sidebar event after which the aggregates of the last run stay on display
Rerun_stale(dt, gt, companies, rng, raw) ==
    /\ data_type' = dt
    /\ graph_type' = gt
    /\ selected_companies' = companies
    /\ date_range' = rng
    /\ raw_data' = raw
    /\ UNCHANGED <<selected_points, selected_company_option, page>>
    /\ UNCHANGED <<pc, models_json, df, parse_error>>

\* a re-run after a sidebar event
Rerun(dt, gt, companies, rng, raw) ==
    LET filtered == apply_filters(df, companies, rng[1], rng[2])
    IN  \E option \in OptionChoices(filtered, raw) :
            /\ Run(df, dt, gt, companies, rng, raw,
                   PointsKept(filtered, dt, gt, raw), option)
            /\ UNCHANGED <<pc, models_json, df, parse_error>>

\* first run, models.json is a JSON array of objects
LoadOK ==
    /\ pc = "start"
    /\ models_json.valid
    /\ models_json.data # <<>>
    /\ df' = load_data(models_json.data)
    /\ UNCHANGED <<models_json, parse_error>>
    /\ IF df' = <<>>
       THEN /\ pc' = "nodata"
            /\ UNCHANGED <<widgets, page>>
       ELSE /\ pc' = "ready"
            /\ \E option \in {<<o>> : o \in first_options(df')} :
                   Run(df', data_type, graph_type, {},
                       <<min_date(df'), max_date(df')>>, FALSE, <<>>, option)

\* first run, models.json is an empty array: the DataFrame has no column
\* and line 14 raises KeyError
LoadKeyError ==
    /\ pc = "start"
    /\ models_json.valid
    /\ models_json.data = <<>>
    /\ pc' = "crashed"
    /\ UNCHANGED <<models_json, df, parse_error, widgets, page>>

\* first run, models.json is malformed: lines 19-26, then line 315
LoadError ==
    /\ pc = "start"
    /\ ~models_json.valid
    /\ \E pos \in FaultPositions(models_json.text) :
           parse_error' = <<report_error(models_json.text, pos)>>
    /\ df' = <<>>
    /\ pc' = "nodata"
    /\ UNCHANGED <<models_json, widgets, page>>

SetDataType ==
    /\ pc = "ready"
    /\ \E v \in {"Number of Available Models", "Newly Released Models per Month"} :
           /\ v # data_type
           /\ Rerun(v, graph_type, selected_companies, date_range, raw_data)

SetGraphType ==
    /\ pc = "ready"
    /\ \E v \in {"Stacked Area", "Line (Total)"} :
           /\ v # graph_type
           /\ Rerun(data_type, v, selected_companies, date_range, raw_data)

SelectCompanies ==
    /\ pc = "ready"
    /\ \E S \in SUBSET Organizations(df) :
           /\ S # selected_companies
           /\ Rerun(data_type, graph_type, S, date_range, raw_data)

\* the date_input offers the days from min_date to max_date; the model
\* picks the ends of the range among the release dates
SetDateRange ==
    /\ pc = "ready"
    /\ \E s, e \in {df[i].ReleaseDate : i \in 1..Len(df)} :
           /\ s[1] <= e[1]
           /\ <<s, e>> # date_range
           /\ Rerun(data_type, graph_type, selected_companies, <<s, e>>, raw_data)

ToggleRawData ==
    /\ pc = "ready"
    /\ Rerun(data_type, graph_type, selected_companies, date_range, ~raw_data)

\* a click on a point of the chart
ClickChart ==
    /\ pc = "ready"
    /\ ~isnull(page.fig)
    /\ \E i \in 1..Len(page.fig[1].x) :
           /\ selected_points # <<page.fig[1].x[i]>>
           /\ Run(df, data_type, graph_type, selected_companies, date_range,
                  raw_data, <<page.fig[1].x[i]>>, selected_company_option)
           /\ UNCHANGED <<pc, models_json, df, parse_error>>

\* a choice in the 'Select a company:' selectbox
SelectCompany ==
    /\ pc = "ready"
    /\ \E o \in page.company_options :
           /\ selected_company_option # <<o>>
           /\ Run(df, data_type, graph_type, selected_companies, date_range,
                  raw_data, selected_points, <<o>>)
           /\ UNCHANGED <<pc, models_json, df, parse_error>>

Load == LoadOK \/ LoadKeyError \/ LoadError

Next ==
    \/ LoadOK
    \/ LoadKeyError
    \/ LoadError
    \/ SetDataType
    \/ SetGraphType
    \/ SelectCompanies
    \/ SetDateRange
    \/ ToggleRawData
    \/ ClickChart
    \/ SelectCompany

Spec == Init /\ [][Next]_vars

SpecLoad == InitLoad /\ [][Load]_vars

FirstRun == LoadOK

SpecCadence == InitCadence /\ [][FirstRun]_vars

-----------------------------------------------------------------------------
(* Reference notions the properties are stated with *)

\* the rows of table t released by organization o
RowsOf(t, o) == {i \in 1..Len(t) : t[i].Organization = o}

DayOf(t, i) == t[i].ReleaseDate[1]

\* the earliest and the latest release day among the rows I of t
Earliest(t, I) == CHOOSE d \in {DayOf(t, i) : i \in I} : \A i \in I : d <= DayOf(t, i)

Latest(t, I) == CHOOSE d \in {DayOf(t, i) : i \in I} : \A i \in I : DayOf(t, i) <= d

\* the organizations of t with at least two releases
Qualifying(t) == {o \in {t[i].Organization : i \in 1..Len(t)} :
                     Cardinality(RowsOf(t, o)) >= 2}

\* the quotient q equals a / b
EqualsRatio(q, a, b) == q.num * b = a * q.den

\* the cycles an organization is given when the table t is measured up to
\* its latest release date: (latest of t - earliest of o) / releases of o
IsCycleOf(cycle, t, o) ==
    LET n     == Cardinality(RowsOf(t, o))
        total == Latest(t, 1..Len(t)) - Earliest(t, RowsOf(t, o))
    IN  /\ ~isnull(cycle[1])
        /\ EqualsRatio(cycle[1][1], total, n)
        /\ cycle[2] = <<(total \div n) \div 30>>
        /\ cycle[3] = <<(total \div n) % 30>>

RECURSIVE DenProduct(_, _)
DenProduct(cycles, S) ==
    IF S = {} THEN 1
    ELSE LET o == CHOOSE x \in S : TRUE
         IN  cycles[o][1][1].den * DenProduct(cycles, S \ {o})

\* the sum of the mean days of the organizations S, scaled by scale
RECURSIVE ScaledSum(_, _, _)
ScaledSum(cycles, S, scale) ==
    IF S = {} THEN 0
    ELSE LET o == CHOOSE x \in S : TRUE
         IN  (cycles[o][1][1].num * scale) \div cycles[o][1][1].den
             + ScaledSum(cycles, S \ {o}, scale)

\* overall is the unweighted mean of the mean days of the organizations S
IsUnweightedMean(overall, cycles, S) ==
    LET scale == DenProduct(cycles, S)
        sum   == ScaledSum(cycles, S, scale)
        k     == Cardinality(S)
    IN  /\ ~isnull(overall.days_mean)
        /\ EqualsRatio(overall.days_mean[1], sum, scale * k)
        /\ overall.months = (sum \div (scale * k)) \div 30
        /\ overall.days = (sum \div (scale * k)) % 30

-----------------------------------------------------------------------------
(* Properties *)

\* C1, as stated: for every organization with at least 2 releases the mean
\* days of its cycle is (its latest release date - its earliest release
\* date) / (number of its releases - 1).
C1_MeanOfConsecutiveDifferences ==
    pc = "ready" =>
        \A o \in Qualifying(df) :
            /\ o \in DOMAIN page.company_cycles[1]
            /\ ~isnull(page.company_cycles[1][o][1])
            /\ EqualsRatio(page.company_cycles[1][o][1][1],
                           Latest(df, RowsOf(df, o)) - Earliest(df, RowsOf(df, o)),
                           Cardinality(RowsOf(df, o)) - 1)

\* C1, amended: for every organization with at least 2 releases the mean
\* days of its cycle is (the latest release date of the whole table - the
\* organization's earliest release date) / (number of its releases), with
\* months = floor(meanDays / 30) and remainderDays = floor(meanDays) mod 30.
C1_CycleUpToLastRelease ==
    pc = "ready" =>
        \A o \in Qualifying(df) :
            /\ o \in DOMAIN page.company_cycles[1]
            /\ IsCycleOf(page.company_cycles[1][o], df, o)

\* an organization whose only releases are 2024-01-15 and 2024-03-15, in a
\* table whose latest release is 2024-04-14: 90 / 2 = 45 days
C1_Witness ==
    /\ pc = "ready"
    /\ \E o \in Qualifying(df) :
          /\ {DayOf(df, i) : i \in RowsOf(df, o)} =
                 {ToOrdinal(<<2024, 1, 15>>), ToOrdinal(<<2024, 3, 15>>)}
          /\ Cardinality(RowsOf(df, o)) = 2
          /\ Latest(df, 1..Len(df)) = ToOrdinal(<<2024, 4, 14>>)
          /\ page.company_cycles[1][o] = << <<Quot(90, 2)>>, <<1>>, <<15>> >>

\* C5: the overall cycle is the unweighted mean of the mean days of exactly
\* the organizations with a defined cycle, shown as floor(mean / 30) months
\* and floor(mean) mod 30 days; it is 0 months 0 days when there is none.
C5_OverallIsUnweightedMean ==
    pc = "ready" =>
        LET cycles  == page.company_cycles[1]
            defined == {o \in DOMAIN cycles : ~isnull(cycles[o][1])}
        IN  IF defined = {}
            THEN page.overall[1].months = 0 /\ page.overall[1].days = 0
            ELSE IsUnweightedMean(page.overall[1], cycles, defined)

\* two organizations with a defined cycle and different numbers of
\* releases, whose cycles differ
C5_Witness ==
    /\ pc = "ready"
    /\ \E o, q \in Qualifying(df) :
          /\ Cardinality(RowsOf(df, o)) < Cardinality(RowsOf(df, q))
          /\ ~EqualsRatio(page.company_cycles[1][o][1][1],
                          page.company_cycles[1][q][1][1].num,
                          page.company_cycles[1][q][1][1].den)
          /\ ~isnull(page.overall[1].days_mean)

\* the rows of df that pass the current sidebar filters
Passes(r) ==
    /\ date_range[1][1] <= r.ReleaseDate[1]
    /\ r.ReleaseDate[1] <= date_range[2][1]
    /\ (r.Organization \in selected_companies \/ selected_companies = {})

IsSubsequence(f, t) ==
    \E pos \in [1..Len(f) -> 1..Len(t)] :
        /\ \A j \in 1..Len(f) : f[j] = t[pos[j]]
        /\ \A j, k \in 1..Len(f) : j < k => pos[j] < pos[k]

\* C2: a row of the normalized table is in the filtered table if and only
\* if start <= its release date <= end and its organization is selected or
\* nothing is selected; the filtered table holds rows of the normalized
\* table only, and the normalized table is still what load_data returned.
C2_FilteredRows ==
    pc = "ready" =>
        LET filtered == page.filtered_df[1]
        IN  /\ \A i \in 1..Len(df) : df[i] \in Range(filtered) <=> Passes(df[i])
            /\ IsSubsequence(filtered, df)
            /\ df = load_data(models_json.data)

\* a selection and a range that end before the last release: a row dated at
\* the end of the range is kept, a row is left out
C2_Witness ==
    /\ pc = "ready"
    /\ selected_companies # {}
    /\ date_range[2][1] < Latest(df, 1..Len(df))
    /\ \E r \in Range(page.filtered_df[1]) : r.ReleaseDate = date_range[2]
    /\ \E r \in Range(page.filtered_df[1]) : r.ReleaseDate = date_range[1]
    /\ Len(page.filtered_df[1]) < Len(df)

MonthNumber(m) == m[1] * 12 + m[2]

\* C3: the monthly counts add up to the number of rows of the filtered
\* table, and there is a cell for every observed month and every observed
\* organization, holding the number of rows of that month and organization.
C3_MonthlyCountsTotal ==
    (pc = "ready" /\ ~isnull(page.monthly_counts)) =>
        LET filtered == page.filtered_df[1]
            monthly  == page.monthly_counts[1]
        IN  /\ SumOver([i \in 1..Len(monthly.index) |->
                           SumOver(monthly.values[i], monthly.columns)],
                       1..Len(monthly.index)) = Len(filtered)
            /\ Range(monthly.index) = {filtered[i].YearMonth : i \in 1..Len(filtered)}
            /\ monthly.columns = {filtered[i].Organization : i \in 1..Len(filtered)}
            /\ \A i \in 1..Len(monthly.index) : \A o \in monthly.columns :
                   monthly.values[i][o] =
                       Cardinality({j \in RowsOf(filtered, o) :
                                       filtered[j].YearMonth = monthly.index[i]})

\* a filtered table of two rows or more with a zero-filled cell
C3_Witness ==
    /\ pc = "ready"
    /\ ~isnull(page.monthly_counts)
    /\ Len(page.filtered_df[1]) >= 2
    /\ \E i, k \in 1..Len(page.monthly_counts[1].index) :
       \E o \in page.monthly_counts[1].columns :
          /\ page.monthly_counts[1].values[i][o] >= 1
          /\ page.monthly_counts[1].values[k][o] = 0

\* C4: for every organization the cumulative count at month M is the number
\* of its releases in the months up to M; the months ascend, the cumulative
\* count never decreases and a month without a release repeats the value
\* of the month before.
C4_CumulativeCounts ==
    (pc = "ready" /\ ~isnull(page.cumulative_counts)) =>
        LET filtered   == page.filtered_df[1]
            monthly    == page.monthly_counts[1]
            cumulative == page.cumulative_counts[1]
            n          == Len(cumulative.index)
        IN  /\ cumulative.index = monthly.index
            /\ cumulative.columns = monthly.columns
            /\ \A i \in 1..(n - 1) :
                   MonthNumber(cumulative.index[i]) < MonthNumber(cumulative.index[i + 1])
            /\ \A i \in 1..n : \A o \in cumulative.columns :
                   /\ cumulative.values[i][o] =
                          Cardinality({j \in RowsOf(filtered, o) :
                              MonthNumber(filtered[j].YearMonth)
                                  <= MonthNumber(cumulative.index[i])})
                   /\ i > 1 => cumulative.values[i - 1][o] <= cumulative.values[i][o]
                   /\ (i > 1 /\ monthly.values[i][o] = 0) =>
                          cumulative.values[i][o] = cumulative.values[i - 1][o]

\* a later month without a release of an organization that released before,
\* the months being in two different years
C4_Witness ==
    /\ pc = "ready"
    /\ ~isnull(page.cumulative_counts)
    /\ \E i \in 2..Len(page.cumulative_counts[1].index) :
       \E o \in page.cumulative_counts[1].columns :
          /\ page.monthly_counts[1].values[i][o] = 0
          /\ page.cumulative_counts[1].values[i][o] >= 1
          /\ page.cumulative_counts[1].index[1][1] < page.cumulative_counts[1].index[i][1]

\* the cycles on display are those of table t
CyclesAreOf(t) ==
    LET cycles == page.company_cycles[1]
    IN  /\ {o \in DOMAIN cycles : ~isnull(cycles[o][1])} = Qualifying(t)
        /\ \A o \in Qualifying(t) : IsCycleOf(cycles[o], t, o)
        /\ IF Qualifying(t) = {}
           THEN page.overall[1].months = 0 /\ page.overall[1].days = 0
           ELSE IsUnweightedMean(page.overall[1], cycles, Qualifying(t))

\* C6: an organization with 0 or 1 release in the normalized table has no
\* cycle in company_cycles, the overall cycle is the mean over the
\* organizations with 2 releases or more only, and a release-cycle banner
\* is shown only for a selected company with 2 releases or more.
C6_NoCycleBelowTwoReleases ==
    pc = "ready" =>
        LET cycles == page.company_cycles[1]
        IN  /\ \A o \in UIOrgCells \cup DOMAIN cycles :
                   Cardinality(RowsOf(df, o)) < 2 =>
                       (o \notin DOMAIN cycles \/ isnull(cycles[o][1]))
            /\ IF Qualifying(df) = {}
               THEN /\ isnull(page.overall[1].days_mean)
                    /\ page.overall[1].months = 0 /\ page.overall[1].days = 0
               ELSE IsUnweightedMean(page.overall[1], cycles, Qualifying(df))
            /\ ~isnull(page.banner) =>
                   /\ page.selected_company = <<page.banner[1].company>>
                   /\ Cardinality(RowsOf(df, page.selected_company)) >= 2

\* the selected company has one release and no banner, its models are listed
C6_Witness ==
    /\ pc = "ready"
    /\ ~isnull(page.selected_company)
    /\ Cardinality(RowsOf(df, page.selected_company)) = 1
    /\ ~isnull(page.company_df)
    /\ isnull(page.banner)

CurrentlyFiltered == SelectSeq(df, Passes)

\* the monthly and the cumulative counts on display are those of table t
CountsAreOf(t) ==
    LET monthly    == page.monthly_counts[1]
        cumulative == page.cumulative_counts[1]
    IN  /\ Range(monthly.index) = {t[i].YearMonth : i \in 1..Len(t)}
        /\ \A i \in 1..(Len(monthly.index) - 1) :
               MonthNumber(monthly.index[i]) < MonthNumber(monthly.index[i + 1])
        /\ monthly.columns = {t[i].Organization : i \in 1..Len(t)}
        /\ cumulative.index = monthly.index
        /\ cumulative.columns = monthly.columns
        /\ \A i \in 1..Len(monthly.index) : \A o \in monthly.columns :
              /\ monthly.values[i][o] =
                     Cardinality({j \in RowsOf(t, o) : t[j].YearMonth = monthly.index[i]})
              /\ cumulative.values[i][o] =
                     Cardinality({j \in RowsOf(t, o) :
                         MonthNumber(t[j].YearMonth) <= MonthNumber(monthly.index[i])})

\* C8, as stated: after any interactions the monthly counts, the cumulative
\* counts and the release cycles on display are all those of the currently
\* filtered table.
C8_AllFromFilteredTable ==
    pc = "ready" =>
        /\ ~raw_data => CountsAreOf(CurrentlyFiltered)
        /\ CyclesAreOf(CurrentlyFiltered)

\* C8, amended: after any interactions the monthly and the cumulative counts
\* on display are those of the currently filtered table, and the release
\* cycles on display (per organization and overall) are those of the whole
\* normalized table, whatever the filters.
C8_CountsFilteredCyclesUnfiltered ==
    pc = "ready" =>
        /\ ~raw_data => CountsAreOf(CurrentlyFiltered)
        /\ CyclesAreOf(df)

\* after a change of the data type and of the date range and a chart click,
\* the filters leave out a release of an organization with two releases
C8_Witness ==
    /\ pc = "ready"
    /\ ~raw_data
    /\ data_type = "Newly Released Models per Month"
    /\ ~isnull(selected_points)
    /\ Len(CurrentlyFiltered) < Len(df)
    /\ Qualifying(df) # {}
    /\ Qualifying(CurrentlyFiltered) = {}

\* the Release Date cell of a raw row parses as YYYY-MM-DD
Parses(row) == ~isnull(row.ReleaseDate) /\ IsCalendarDate(row.ReleaseDate[1])

\* the Organization cell of a raw row is absent or empty
OrganizationMissing(row) == isnull(row.Organization) \/ row.Organization = << <<>> >>

\* C7, as stated: the normalized table consists of exactly the input rows
\* whose Release Date parses, in input order; a row whose Organization is
\* absent or empty has Organization "Unknown", and each row has the
\* Year-Month of its parsed date.
C7_NormalizedTable ==
    (pc \in {"ready", "nodata"} /\ models_json.valid) =>
        LET data == models_json.data
        IN  /\ {df[j].Model : j \in 1..Len(df)} = {i \in 1..Len(data) : Parses(data[i])}
            /\ \A j, k \in 1..Len(df) : j < k => df[j].Model < df[k].Model
            /\ \A j \in 1..Len(df) :
                  LET row == data[df[j].Model]
                  IN  /\ df[j].Organization =
                             IF OrganizationMissing(row) THEN <<Unknown>>
                             ELSE row.Organization
                      /\ df[j].YearMonth = <<row.ReleaseDate[1][1], row.ReleaseDate[1][2]>>

\* C9, as stated: when k > 0 input rows are dropped for an unparseable
\* release date a warning with the count k is shown, and when m > 0 input
\* rows have no organization a warning with the count m is shown.
C9_QualityWarnings ==
    pc = "ready" =>
        LET data == models_json.data
            k == Cardinality({i \in 1..Len(data) : ~Parses(data[i])})
            m == Cardinality({i \in 1..Len(data) : isnull(data[i].Organization)})
        IN  /\ k > 0 => [kind |-> "invalid release date", count |-> k] \in page.warnings
            /\ m > 0 => [kind |-> "missing organization", count |-> m] \in page.warnings

\* the text of the lines lo..hi of a file
LinesText(doc, lo, hi) ==
    LET lines == readlines(doc)
    IN  SubSeq(doc, Len(join(SubSeq(lines, 1, lo - 1))) + 1,
                    Len(join(SubSeq(lines, 1, hi))))

\* the report names the fault by its 1-based line and column, no table is
\* loaded and nothing is computed in the run
FaultReported(e, doc) ==
    /\ e.lineno >= 1
    /\ e.colno >= 1
    /\ e.lineno <= Len(readlines(doc)) + 1
    /\ Len(join(SubSeq(readlines(doc), 1, e.lineno - 1))) + e.colno - 1 = e.char
    /\ df = <<>>
    /\ pc = "nodata"
    /\ page = NoPage

\* the excerpt is the text of the lines L-2 .. L+2 that the file has
ExcerptAround(e, doc) ==
    LET n  == Len(readlines(doc))
        lo == IF e.lineno - 2 > 1 THEN e.lineno - 2 ELSE 1
        hi == IF e.lineno + 2 < n THEN e.lineno + 2 ELSE n
    IN  e.excerpt = LinesText(doc, lo, hi)

\* C10, as stated: a malformed models.json is reported with the 1-based
\* line and column of the fault and a non-empty excerpt of the faulty line
\* with up to two lines before and after it; the dataset is empty and no
\* filter or aggregate is computed.
C10_ParseErrorReport ==
    ~isnull(parse_error) =>
        /\ FaultReported(parse_error[1], models_json.text)
        /\ ExcerptAround(parse_error[1], models_json.text)
        /\ parse_error[1].excerpt # <<>>

\* C10, amended: a malformed models.json is reported with the 1-based line
\* and column of the fault and an excerpt made of the lines L-2 .. L+2 that
\* the file has, which is empty exactly when the file is empty; the dataset
\* is empty and no filter or aggregate is computed.
C10_ParseErrorReportUnlessEmpty ==
    ~isnull(parse_error) =>
        /\ FaultReported(parse_error[1], models_json.text)
        /\ ExcerptAround(parse_error[1], models_json.text)
        /\ parse_error[1].excerpt = <<>> <=> models_json.text = <<>>

\* a fault on the third line of a file of three lines
C10_Witness ==
    /\ ~isnull(parse_error)
    /\ parse_error[1].lineno = 3
    /\ Len(readlines(models_json.text)) = 3
    /\ parse_error[1].excerpt = models_json.text
    /\ pc = "nodata"

====
